---- MODULE Spec2Model ----
(***************************************************************************)
(* Model of the azure-activation-service command line client              *)
(* (src/src/azure_activation_service/cli.py): the role cache file, the     *)
(* auto-activate config file and the five commands that read and write     *)
(* them through the PIM client.                                            *)
(***************************************************************************)
EXTENDS Integers, Sequences, FiniteSets, TLC

\* Number of role ids the directory can hold.
MaxRoles == 2

RoleIds == 1..MaxRoles
\* Ids a config file or a command line may name: the directory's ids and one
\* id the directory never holds.
ConfigIds == 1..(MaxRoles + 1)

LiveStates == {"absent", "eligible", "active"}
Outcomes == {"ok", "auth", "pim"}

VARIABLES
    live,        \* the directory: role id -> absent / eligible / active
    cache,       \* ROLES_CACHE_FILE
    autoConfig,  \* AUTO_ACTIVATE_CONFIG
    pc,          \* position of the running command
    cmd,         \* the running command and its arguments
    roles,       \* the command's local `roles`
    idx,         \* auto_activate: index of the next config entry
    counts,      \* auto_activate: activated / skipped / failed counters
    log          \* external calls, file writes and messages of the command

vars == <<live, cache, autoConfig, pc, cmd, roles, idx, counts, log>>

----------------------------------------------------------------------------
\* Roles and their serialized form

DisplayName(id) == <<"Role", id>>
ResourceName(id) == <<"Sub", id>>

\* A Role object as PIMClient.get_roles returns it.
Role(id, st) ==
    [name |-> id, display_name |-> DisplayName(id), resource_name |-> ResourceName(id),
     assignment_type |-> IF st = "active" THEN "Activated" ELSE "None"]

RECURSIVE RolesFrom(_, _)
RolesFrom(lv, i) ==
    IF i > MaxRoles THEN <<>>
    ELSE (IF lv[i] = "absent" THEN <<>> ELSE <<Role(i, lv[i])>>) \o RolesFrom(lv, i + 1)

\* PIMClient.get_roles: the roles the directory holds now.
get_roles(lv) == RolesFrom(lv, 1)

RoleKeys == {"name", "display_name", "resource_name", "assignment_type"}

\* PIMClient.serialize_roles: one JSON object per role; None becomes null.
serialize_role(r) ==
    [k \in RoleKeys |->
        IF k = "assignment_type"
        THEN (IF r.assignment_type = "None" THEN "null" ELSE r.assignment_type)
        ELSE r[k]]

serialize_roles(rs) == [i \in 1..Len(rs) |-> serialize_role(rs[i])]

\* PIMClient.deserialize_roles: KeyError when an object lacks a key.
deserialize_role(d) ==
    [name |-> d["name"], display_name |-> d["display_name"],
     resource_name |-> d["resource_name"],
     assignment_type |-> IF d["assignment_type"] = "null" THEN "None" ELSE d["assignment_type"]]

deserialize_roles(items) ==
    IF \E i \in 1..Len(items) : ~(RoleKeys \subseteq DOMAIN items[i])
    THEN [raised |-> TRUE, roles |-> <<>>]
    ELSE [raised |-> FALSE, roles |-> [i \in 1..Len(items) |-> deserialize_role(items[i])]]

----------------------------------------------------------------------------
\* The cache file

AbsentFile == [kind |-> "absent", items |-> <<>>]
InvalidJson == [kind |-> "invalid", items |-> <<>>]
DocFile(items) == [kind |-> "doc", items |-> items]
\* A parseable document whose one object lacks the assignment_type key.
MissingKeysDoc ==
    DocFile(<<[k \in RoleKeys \ {"assignment_type"} |-> serialize_role(Role(1, "eligible"))[k]]>>)

DamagedCaches == {AbsentFile, InvalidJson, MissingKeysDoc}

\* The result of load_roles_from_cache: found = FALSE stands for None.
load_roles_from_cache(c) ==
    IF c.kind = "absent" THEN [found |-> FALSE, roles |-> <<>>]
    ELSE IF c.kind = "invalid" THEN [found |-> FALSE, roles |-> <<>>]
    ELSE IF deserialize_roles(c.items).raised THEN [found |-> FALSE, roles |-> <<>>]
    ELSE [found |-> TRUE, roles |-> deserialize_roles(c.items).roles]

\* Log entries.
Ev(ev, out, id, rs) == [ev |-> ev, out |-> out, id |-> id, roles |-> rs]
Echo(msg) == Ev("echo", msg, 0, <<>>)
CacheWrite(rs) == Ev("cache_write", "ok", 0, rs)

\* refresh_and_save_cache with get_roles ending in outcome o.
RefreshOpensFileFirst(o, lv, c) ==
    IF o = "ok"
    THEN [exc |-> "none", roles |-> get_roles(lv), cache |-> DocFile(serialize_roles(get_roles(lv))),
          events |-> <<Ev("get_roles", "ok", 0, get_roles(lv)), CacheWrite(get_roles(lv))>>]
    ELSE [exc |-> o, roles |-> <<>>, cache |-> InvalidJson, events |-> <<Ev("get_roles", o, 0, <<>>)>>]

RefreshSkipsWrite(o, lv, c) ==
    IF o = "ok"
    THEN [exc |-> "none", roles |-> get_roles(lv), cache |-> c,
          events |-> <<Ev("get_roles", "ok", 0, get_roles(lv))>>]
    ELSE [exc |-> o, roles |-> <<>>, cache |-> c, events |-> <<Ev("get_roles", o, 0, <<>>)>>]

refresh_and_save_cache(o, lv, c) ==
    IF o = "ok"
    THEN [exc |-> "none", roles |-> get_roles(lv), cache |-> DocFile(serialize_roles(get_roles(lv))),
          events |-> <<Ev("get_roles", "ok", 0, get_roles(lv)), CacheWrite(get_roles(lv))>>]
    ELSE [exc |-> o, roles |-> <<>>, cache |-> c, events |-> <<Ev("get_roles", o, 0, <<>>)>>]

NoRefresh(rs, c) == [exc |-> "none", roles |-> rs, cache |-> c, events |-> <<>>]

\* `load_roles_from_cache(pim) or refresh_and_save_cache(pim)`: None and the
\* empty list are both falsy.
LoadOrRefreshAlways(o, lv, c) == refresh_and_save_cache(o, lv, c)

LoadOrRefresh(o, lv, c) ==
    IF load_roles_from_cache(c).found /\ load_roles_from_cache(c).roles # <<>>
    THEN NoRefresh(load_roles_from_cache(c).roles, c)
    ELSE refresh_and_save_cache(o, lv, c)

\* `next((r for r in roles if r.name == role_id), None)`
HasRole(rs, id) == \E i \in 1..Len(rs) : rs[i].name = id
FindRole(rs, id) == rs[CHOOSE i \in 1..Len(rs) : rs[i].name = id /\ \A j \in 1..(i - 1) : rs[j].name # id]

\* Truthiness of role.assignment_type.
NeverActivated(role) == FALSE

IsActivated(role) == role.assignment_type # "None"

----------------------------------------------------------------------------
\* The PIM client's exceptions and the handlers' messages

\* NotAuthenticatedError and PIMError are distinct failures.
IsPIMError(exc) == exc = "pim"
IsNotAuthenticatedError(exc) == exc = "auth"

\* except NotAuthenticatedError / except PIMError of activate, deactivate, list_roles
PimHandler(exc) == IF IsNotAuthenticatedError(exc) THEN Echo("auth_error") ELSE Echo("error_message")
\* except json.JSONDecodeError / except Exception of import_config
ImportHandler(exc) == IF exc = "json" THEN Echo("invalid_json") ELSE Echo("error_message")
\* except NotAuthenticatedError / json.JSONDecodeError / Exception of auto_activate
AutoHandler(exc) == IF IsNotAuthenticatedError(exc) THEN Echo("auth_error") ELSE Echo("error_message")

\* What a mutation call may end in: the directory refuses a role it does not hold.
CallOutcomes(lv, id) == IF lv[id] = "absent" THEN Outcomes \ {"ok"} ELSE Outcomes

\* What a command finds in the cache file when it starts.
CacheClass(c) ==
    IF c.kind = "absent" THEN "absent"
    ELSE IF c.kind = "invalid" THEN "invalid_json"
    ELSE IF \E i \in 1..Len(c.items) : ~(RoleKeys \subseteq DOMAIN c.items[i]) THEN "missing_keys"
    ELSE IF Len(c.items) = 0 THEN "empty"
    ELSE "populated"

NoMap == [i \in {} |-> FALSE]
\* A file given to import-config, as json.load sees it. keys: the keys of an
\* object, the elements of an array, the substrings of a string.
File(kind, keys, rs, legacy) == [kind |-> kind, keys |-> keys, roles |-> rs, legacy |-> legacy]
NoFile == File("none", {}, <<>>, NoMap)

NoCmd == [name |-> "none", role_id |-> 0, update |-> FALSE, file |-> NoFile, found |-> "absent"]
ZeroCounts == [activated |-> 0, skipped |-> 0, failed |-> 0]

\* A command starts.
Begin(name, id, update, f) ==
    /\ pc = "idle"
    /\ cmd' = [name |-> name, role_id |-> id, update |-> update, file |-> f,
               found |-> CacheClass(cache)]

----------------------------------------------------------------------------
\* activate

\* cli.py 40-42: resolve the role set
Activate(id, o) ==
    /\ Begin("activate", id, FALSE, NoFile)
    /\ o # "ok" => LoadOrRefresh(o, live, cache).exc # "none"
    /\ LET r == LoadOrRefresh(o, live, cache) IN
        /\ cache' = r.cache
        /\ roles' = r.roles
        /\ log' = IF r.exc = "none" THEN r.events ELSE r.events \o <<PimHandler(r.exc)>>
        /\ pc' = IF r.exc = "none" THEN "mutate" ELSE "done"
    /\ UNCHANGED <<live, autoConfig, idx, counts>>

\* cli.py 44-55: find the role, check it, call activate_role
ActivateRole(o) ==
    /\ pc = "mutate" /\ cmd.name = "activate"
    /\ IF ~HasRole(roles, cmd.role_id)
       THEN /\ log' = Append(log, Echo("not_found"))
            /\ pc' = "done"
            /\ live' = live
       ELSE IF IsActivated(FindRole(roles, cmd.role_id))
       THEN /\ log' = Append(log, Echo("already_activated"))
            /\ pc' = "done"
            /\ live' = live
       ELSE /\ o \in CallOutcomes(live, cmd.role_id)
            /\ IF o = "ok"
               THEN /\ live' = [live EXCEPT ![cmd.role_id] = "active"]
                    /\ log' = log \o <<Ev("activate_role", "ok", cmd.role_id, <<>>), Echo("activated")>>
                    /\ pc' = "refresh"
               ELSE /\ live' = live
                    /\ log' = log \o <<Ev("activate_role", o, cmd.role_id, <<>>), PimHandler(o)>>
                    /\ pc' = "done"
    /\ UNCHANGED <<cache, autoConfig, cmd, roles, idx, counts>>

\* cli.py 57-58: refresh the cache after the activation
ActivateRefresh(o) ==
    /\ pc = "refresh" /\ cmd.name = "activate"
    /\ LET r == refresh_and_save_cache(o, live, cache) IN
        /\ cache' = r.cache
        /\ log' = IF r.exc = "none" THEN log \o r.events ELSE log \o r.events \o <<PimHandler(r.exc)>>
    /\ pc' = "done"
    /\ UNCHANGED <<live, autoConfig, cmd, roles, idx, counts>>

----------------------------------------------------------------------------
\* deactivate

\* cli.py 72-74
Deactivate(id, o) ==
    /\ Begin("deactivate", id, FALSE, NoFile)
    /\ o # "ok" => LoadOrRefresh(o, live, cache).exc # "none"
    /\ LET r == LoadOrRefresh(o, live, cache) IN
        /\ cache' = r.cache
        /\ roles' = r.roles
        /\ log' = IF r.exc = "none" THEN r.events ELSE r.events \o <<PimHandler(r.exc)>>
        /\ pc' = IF r.exc = "none" THEN "mutate" ELSE "done"
    /\ UNCHANGED <<live, autoConfig, idx, counts>>

\* cli.py 76-87
DeactivateRole(o) ==
    /\ pc = "mutate" /\ cmd.name = "deactivate"
    /\ IF ~HasRole(roles, cmd.role_id)
       THEN /\ log' = Append(log, Echo("not_found"))
            /\ pc' = "done"
            /\ live' = live
       ELSE IF ~IsActivated(FindRole(roles, cmd.role_id))
       THEN /\ log' = Append(log, Echo("not_activated"))
            /\ pc' = "done"
            /\ live' = live
       ELSE /\ o \in CallOutcomes(live, cmd.role_id)
            /\ IF o = "ok"
               THEN /\ live' = [live EXCEPT ![cmd.role_id] = "eligible"]
                    /\ log' = log \o <<Ev("deactivate_role", "ok", cmd.role_id, <<>>), Echo("deactivated")>>
                    /\ pc' = "refresh"
               ELSE /\ live' = live
                    /\ log' = log \o <<Ev("deactivate_role", o, cmd.role_id, <<>>), PimHandler(o)>>
                    /\ pc' = "done"
    /\ UNCHANGED <<cache, autoConfig, cmd, roles, idx, counts>>

\* cli.py 89-90
DeactivateRefresh(o) ==
    /\ pc = "refresh" /\ cmd.name = "deactivate"
    /\ LET r == refresh_and_save_cache(o, live, cache) IN
        /\ cache' = r.cache
        /\ log' = IF r.exc = "none" THEN log \o r.events ELSE log \o r.events \o <<PimHandler(r.exc)>>
    /\ pc' = "done"
    /\ UNCHANGED <<live, autoConfig, cmd, roles, idx, counts>>

----------------------------------------------------------------------------
\* list-roles

\* cli.py 107: `None if update else load_roles_from_cache(pim)`
ListLoadIgnoresUpdate(update, c) == load_roles_from_cache(c)

ListLoad(update, c) ==
    IF update THEN [found |-> FALSE, roles |-> <<>>] ELSE load_roles_from_cache(c)

\* cli.py 107-109: refresh only when the load gave None
ListResolve(update, o, lv, c) ==
    IF ListLoad(update, c).found
    THEN NoRefresh(ListLoad(update, c).roles, c)
    ELSE refresh_and_save_cache(o, lv, c)

ListRoles(update, o) ==
    /\ Begin("list-roles", 0, update, NoFile)
    /\ o # "ok" => ListResolve(update, o, live, cache).exc # "none"
    /\ LET r == ListResolve(update, o, live, cache) IN
        /\ cache' = r.cache
        /\ roles' = r.roles
        /\ log' = IF r.exc # "none" THEN r.events \o <<PimHandler(r.exc)>>
                  ELSE IF r.roles = <<>> THEN r.events \o <<Echo("no_roles")>>
                  ELSE r.events \o <<Echo("table")>>
    /\ pc' = "done"
    /\ UNCHANGED <<live, autoConfig, idx, counts>>

----------------------------------------------------------------------------
\* import-config

\* One entry of the current shape.
Entry(id, auto) == [id |-> id, name |-> DisplayName(id), resource |-> ResourceName(id), autoActivate |-> auto]

\* The entries a file lists for the ids of m, by ascending id.
RECURSIVE EntriesFrom(_, _)
EntriesFrom(m, i) ==
    IF i > MaxRoles + 1 THEN <<>>
    ELSE (IF i \in DOMAIN m THEN <<Entry(i, m[i])>> ELSE <<>>) \o EntriesFrom(m, i + 1)

FlagMaps == UNION {[S -> BOOLEAN] : S \in SUBSET ConfigIds}

ImportFiles ==
    {File("unparseable", {}, <<>>, NoMap),
     File("number", {}, <<>>, NoMap),
     File("object", {"other"}, <<>>, NoMap),
     File("array", {"other"}, <<>>, NoMap),
     File("array", {"roles"}, <<>>, NoMap),
     File("string", {"roles"}, <<>>, NoMap),
     File("object", {"autoActivationEnabled", "roles"}, <<Entry(1, TRUE)>>, [i \in {1} |-> FALSE])}
    \cup {File("object", {"autoActivationEnabled"}, <<>>, m) : m \in FlagMaps}
    \cup {File("object", {"roles"}, EntriesFrom(m, 1), NoMap) : m \in FlagMaps}

\* The files the full command sequence imports: one of each kind.
CoreFiles ==
    {File("unparseable", {}, <<>>, NoMap),
     File("number", {}, <<>>, NoMap),
     File("object", {"other"}, <<>>, NoMap),
     File("array", {"roles"}, <<>>, NoMap),
     File("object", {"autoActivationEnabled"}, <<>>, [i \in ConfigIds |-> i # 2]),
     File("object", {"roles"}, <<>>, NoMap),
     File("object", {"roles"}, EntriesFrom([i \in ConfigIds |-> TRUE], 1), NoMap)}

\* `key in config_data`: TypeError on a number.
InRaises(f) == f.kind = "number"
Contains(f, key) == key \in f.keys

\* `old_config.get(role.name, False)`
OldGetDefaultTrue(old, id) == IF id \in DOMAIN old THEN old[id] ELSE TRUE

OldGet(old, id) == IF id \in DOMAIN old THEN old[id] ELSE FALSE

\* cli.py 167-176: one entry per role of the resolved role set
NewConfigRoles(rs, old) ==
    [i \in 1..Len(rs) |->
        [id |-> rs[i].name, name |-> rs[i].display_name, resource |-> rs[i].resource_name,
         autoActivate |-> OldGet(old, rs[i].name)]]

ConfigDoc(kind, keys, rs) == [kind |-> kind, keys |-> keys, roles |-> rs]
NoConfig == ConfigDoc("absent", {}, <<>>)
ConfigWrite(rs) == Ev("config_write", "ok", 0, rs)

\* cli.py 157-200. o: the outcome of get_roles, should the legacy branch refresh.
ImportConfig(f, o) ==
    /\ Begin("import-config", 0, FALSE, f)
    /\ o # "ok" => /\ f.kind = "object" /\ Contains(f, "autoActivationEnabled")
                   /\ LoadOrRefresh(o, live, cache).exc # "none"
    /\ IF f.kind = "unparseable"
       THEN /\ log' = <<ImportHandler("json")>>
            /\ UNCHANGED <<cache, autoConfig, roles>>
       ELSE IF InRaises(f)
       THEN /\ log' = <<ImportHandler("type")>>
            /\ UNCHANGED <<cache, autoConfig, roles>>
       ELSE IF Contains(f, "autoActivationEnabled")
       THEN IF f.kind # "object"
            THEN /\ log' = <<ImportHandler("type")>>
                 /\ UNCHANGED <<cache, autoConfig, roles>>
            ELSE LET r == LoadOrRefresh(o, live, cache) IN
                 /\ cache' = r.cache
                 /\ roles' = r.roles
                 /\ IF r.exc # "none"
                    THEN /\ log' = r.events \o <<ImportHandler(r.exc)>>
                         /\ autoConfig' = autoConfig
                    ELSE /\ autoConfig' = ConfigDoc("object", {"roles"}, NewConfigRoles(r.roles, f.legacy))
                         /\ log' = r.events \o <<ConfigWrite(NewConfigRoles(r.roles, f.legacy)),
                                                Echo("imported"), Echo("table")>>
       ELSE IF ~Contains(f, "roles")
       THEN /\ log' = <<Echo("invalid_format")>>
            /\ UNCHANGED <<cache, autoConfig, roles>>
       ELSE /\ autoConfig' = ConfigDoc(f.kind, f.keys, f.roles)
            /\ log' = IF f.kind = "object"
                      THEN <<ConfigWrite(f.roles), Echo("imported"), Echo("table")>>
                      ELSE <<ConfigWrite(f.roles), ImportHandler("type")>>
            /\ UNCHANGED <<cache, roles>>
    /\ pc' = "done"
    /\ UNCHANGED <<live, idx, counts>>

----------------------------------------------------------------------------
\* auto-activate

\* `except PIMError` inside the loop
CaughtPerRoleAny(exc) == TRUE

CaughtPerRole(exc) == IsPIMError(exc)

\* cli.py 231-234: a configured role that is not in the role set
MissingNotCounted(c) == c

CountMissing(c) == [c EXCEPT !.failed = @ + 1]

\* cli.py 206-224
AutoActivate(o) ==
    /\ Begin("auto-activate", 0, FALSE, NoFile)
    /\ o # "ok" => autoConfig.kind = "object" /\ autoConfig.roles # <<>>
    /\ idx' = 1
    /\ counts' = ZeroCounts
    /\ IF autoConfig.kind = "absent"
       THEN /\ log' = <<Echo("no_config")>>
            /\ pc' = "done"
            /\ UNCHANGED <<cache, roles>>
       ELSE IF autoConfig.kind # "object"
       THEN /\ log' = <<AutoHandler("attribute")>>
            /\ pc' = "done"
            /\ UNCHANGED <<cache, roles>>
       ELSE IF autoConfig.roles = <<>>
       THEN /\ log' = <<Echo("no_config_roles")>>
            /\ pc' = "done"
            /\ UNCHANGED <<cache, roles>>
       ELSE LET r == refresh_and_save_cache(o, live, cache) IN
            /\ cache' = r.cache
            /\ roles' = r.roles
            /\ log' = IF r.exc = "none" THEN r.events ELSE r.events \o <<AutoHandler(r.exc)>>
            /\ pc' = IF r.exc = "none" THEN "loop" ELSE "done"
    /\ UNCHANGED <<live, autoConfig>>

\* cli.py 226-247: one iteration of the loop over config_data['roles']
AutoStep(o) ==
    /\ pc = "loop" /\ cmd.name = "auto-activate"
    /\ idx <= Len(autoConfig.roles)
    /\ LET config_role == autoConfig.roles[idx] IN
       IF ~config_role.autoActivate
       THEN /\ idx' = idx + 1
            /\ UNCHANGED <<live, counts, log, pc>>
       ELSE IF ~HasRole(roles, config_role.id)
       THEN /\ log' = Append(log, Ev("echo", "warn_not_found", config_role.id, <<>>))
            /\ counts' = CountMissing(counts)
            /\ idx' = idx + 1
            /\ UNCHANGED <<live, pc>>
       ELSE IF IsActivated(FindRole(roles, config_role.id))
       THEN /\ log' = Append(log, Ev("echo", "skipping", config_role.id, <<>>))
            /\ counts' = [counts EXCEPT !.skipped = @ + 1]
            /\ idx' = idx + 1
            /\ UNCHANGED <<live, pc>>
       ELSE /\ o \in CallOutcomes(live, config_role.id)
            /\ IF o = "ok"
               THEN /\ live' = [live EXCEPT ![config_role.id] = "active"]
                    /\ log' = log \o <<Ev("activate_role", "ok", config_role.id, <<>>),
                                       Ev("echo", "activated", config_role.id, <<>>)>>
                    /\ counts' = [counts EXCEPT !.activated = @ + 1]
                    /\ idx' = idx + 1
                    /\ pc' = pc
               ELSE IF CaughtPerRole(o)
               THEN /\ live' = live
                    /\ log' = log \o <<Ev("activate_role", o, config_role.id, <<>>),
                                       Ev("echo", "failed_to_activate", config_role.id, <<>>)>>
                    /\ counts' = [counts EXCEPT !.failed = @ + 1]
                    /\ idx' = idx + 1
                    /\ pc' = pc
               ELSE /\ live' = live
                    /\ log' = log \o <<Ev("activate_role", o, config_role.id, <<>>), AutoHandler(o)>>
                    /\ pc' = "done"
                    /\ UNCHANGED <<counts, idx>>
    /\ UNCHANGED <<cache, autoConfig, cmd, roles>>

\* cli.py 249-255: the refresh after the loop and the summary
AutoFinish(o) ==
    /\ pc = "loop" /\ cmd.name = "auto-activate"
    /\ idx > Len(autoConfig.roles)
    /\ LET r == refresh_and_save_cache(o, live, cache) IN
        /\ cache' = r.cache
        /\ log' = IF r.exc = "none" THEN log \o r.events \o <<Echo("summary")>>
                  ELSE log \o r.events \o <<AutoHandler(r.exc)>>
    /\ pc' = "done"
    /\ UNCHANGED <<live, autoConfig, cmd, roles, idx, counts>>

----------------------------------------------------------------------------
\* The command returns; the process ends.
Return ==
    /\ pc = "done"
    /\ pc' = "idle"
    /\ cmd' = NoCmd
    /\ roles' = <<>>
    /\ idx' = 0
    /\ counts' = ZeroCounts
    /\ log' = <<>>
    /\ UNCHANGED <<live, cache, autoConfig>>

\* Between commands the directory changes: a role is granted, removed,
\* activated elsewhere, or its activation expires.
Drift(id, st) ==
    /\ pc = "idle"
    /\ live[id] # st
    /\ live' = [live EXCEPT ![id] = st]
    /\ UNCHANGED <<cache, autoConfig, pc, cmd, roles, idx, counts, log>>

\* Between commands the cache file is deleted or damaged.
CacheDamage(c) ==
    /\ pc = "idle"
    /\ cache # c
    /\ cache' = c
    /\ UNCHANGED <<live, autoConfig, pc, cmd, roles, idx, counts, log>>

Init ==
    /\ live \in [RoleIds -> LiveStates]
    /\ cache \in DamagedCaches
    /\ autoConfig = NoConfig
    /\ pc = "idle"
    /\ cmd = NoCmd
    /\ roles = <<>>
    /\ idx = 0
    /\ counts = ZeroCounts
    /\ log = <<>>

Next ==
    \/ \E id \in ConfigIds, o \in Outcomes : Activate(id, o)
    \/ \E o \in Outcomes : ActivateRole(o)
    \/ \E o \in Outcomes : ActivateRefresh(o)
    \/ \E id \in ConfigIds, o \in Outcomes : Deactivate(id, o)
    \/ \E o \in Outcomes : DeactivateRole(o)
    \/ \E o \in Outcomes : DeactivateRefresh(o)
    \/ \E u \in BOOLEAN, o \in Outcomes : ListRoles(u, o)
    \/ \E f \in CoreFiles, o \in Outcomes : ImportConfig(f, o)
    \/ \E o \in Outcomes : AutoActivate(o)
    \/ \E o \in Outcomes : AutoStep(o)
    \/ \E o \in Outcomes : AutoFinish(o)
    \/ Return
    \/ \E id \in RoleIds, st \in LiveStates : Drift(id, st)
    \/ \E c \in DamagedCaches : CacheDamage(c)

Spec == Init /\ [][Next]_vars

----------------------------------------------------------------------------
\* import-config alone, over every file, from the files an earlier command
\* may have left.

Snapshots == {DocFile(serialize_roles(get_roles(lv))) : lv \in [RoleIds -> LiveStates]}

InitImport ==
    /\ live \in [RoleIds -> LiveStates]
    /\ cache \in DamagedCaches \cup Snapshots
    /\ autoConfig \in {NoConfig, ConfigDoc("object", {"roles"}, <<Entry(1, TRUE)>>)}
    /\ pc = "idle"
    /\ cmd = NoCmd
    /\ roles = <<>>
    /\ idx = 0
    /\ counts = ZeroCounts
    /\ log = <<>>

NextImport == \E f \in ImportFiles, o \in Outcomes : ImportConfig(f, o)

SpecImport == InitImport /\ [][NextImport]_vars

----------------------------------------------------------------------------
\* auto-activate alone, over every config an import may have persisted.

\* Every list of distinct ids in ascending order, and every pair of
\* autoActivate = true entries: ids out of order or named twice.
PersistedConfigs ==
    {NoConfig, ConfigDoc("array", {"roles"}, <<>>)}
    \cup {ConfigDoc("object", {"roles"}, EntriesFrom(m, 1)) : m \in FlagMaps}
    \cup {ConfigDoc("object", {"roles"}, <<Entry(a, TRUE), Entry(b, TRUE)>>) : a, b \in ConfigIds}

InitAuto ==
    /\ live \in [RoleIds -> LiveStates]
    /\ cache \in DamagedCaches \cup {DocFile(serialize_roles(get_roles([i \in RoleIds |-> "eligible"])))}
    /\ autoConfig \in PersistedConfigs
    /\ pc = "idle"
    /\ cmd = NoCmd
    /\ roles = <<>>
    /\ idx = 0
    /\ counts = ZeroCounts
    /\ log = <<>>

NextAuto ==
    \/ \E o \in Outcomes : AutoActivate(o)
    \/ \E o \in Outcomes : AutoStep(o)
    \/ \E o \in Outcomes : AutoFinish(o)
    \/ Return

SpecAuto == InitAuto /\ [][NextAuto]_vars

----------------------------------------------------------------------------
\* Reading the log

ExternalEvs == {"get_roles", "activate_role", "deactivate_role"}
At(l, ev) == {i \in 1..Len(l) : l[i].ev = ev}
\* The events a step appended to the log.
Added == IF Len(log') > Len(log) THEN (Len(log) + 1)..Len(log') ELSE IF log' # log THEN 1..Len(log') ELSE {}
MutationEv == IF cmd.name = "activate" THEN "activate_role" ELSE "deactivate_role"
\* The successful mutation calls of a finished activate or deactivate command.
MutatedAt ==
    IF pc = "done" /\ cmd.name \in {"activate", "deactivate"}
    THEN {i \in At(log, MutationEv) : log[i].out = "ok"}
    ELSE {}
AfterIn(l, ev, i) == {j \in At(l, ev) : j > i}
\* The serialized activation state the cache holds for a role id.
CachedState(c, id) ==
    {c.items[k]["assignment_type"] : k \in {k \in 1..Len(c.items) : c.items[k]["name"] = id}}

----------------------------------------------------------------------------
\* C1 as stated: when an activate or deactivate command whose mutation call
\* succeeded ends, refresh ran exactly once after the mutation, no cache write
\* follows it, and the cache file holds exactly the role set fetched after the
\* mutation, never the pre-mutation activation state.
C1_Original ==
    \A i \in MutatedAt :
        /\ Cardinality(AfterIn(log, "get_roles", i)) = 1
        /\ \E j \in AfterIn(log, "get_roles", i) :
            /\ log[j].out = "ok"
            /\ AfterIn(log, "cache_write", i) = {j + 1}
            /\ cache = DocFile(serialize_roles(log[j].roles))
        /\ CachedState(cache, cmd.role_id) =
              {IF cmd.name = "activate" THEN "Activated" ELSE "null"}

\* C1 amended: refresh is invoked exactly once after a successful mutation and
\* no cache write follows it; when its get_roles call returns, the cache file
\* holds exactly the role set fetched after the mutation; when its get_roles
\* call fails, nothing is written after the mutation and the error is reported
\* after the success message.
C1_Amended ==
    \A i \in MutatedAt :
        /\ Cardinality(AfterIn(log, "get_roles", i)) = 1
        /\ \E j \in AfterIn(log, "get_roles", i) :
            IF log[j].out = "ok"
            THEN /\ AfterIn(log, "cache_write", i) = {j + 1}
                 /\ Len(log) = j + 1
                 /\ cache = DocFile(serialize_roles(log[j].roles))
            ELSE /\ AfterIn(log, "cache_write", i) = {}
                 /\ Len(log) = j + 1
                 /\ log[j + 1] = Echo(IF log[j].out = "auth" THEN "auth_error" ELSE "error_message")
                 /\ log[i + 1] \in {Echo("activated"), Echo("deactivated")}

\* A deactivate command that found a populated cache, deactivated the role
\* and refreshed the cache.
C1_Witness ==
    /\ MutatedAt # {}
    /\ cmd.name = "deactivate"
    /\ cmd.found = "populated"
    /\ \E j \in At(log, "get_roles") : log[j].out = "ok"

----------------------------------------------------------------------------
\* Where a role set holds a role id.
RoleIn(rs, id) == {k \in 1..Len(rs) : rs[k].name = id}

\* C2: activate on a role whose assignment_type is set in the resolved role
\* set never calls activate_role, reports 'already activated' and ends without
\* a refresh after it; deactivate on a role whose assignment_type is not set
\* never calls deactivate_role, reports 'not currently activated' and ends
\* without a refresh after it.
C2_Precondition ==
    /\ \A k \in RoleIn(roles, cmd.role_id) :
        (cmd.name = "activate" /\ pc \in {"refresh", "done"} /\ roles[k].assignment_type # "None")
        => /\ At(log, "activate_role") = {}
           /\ pc = "done"
           /\ log[Len(log)] = Echo("already_activated")
           /\ At(log, "get_roles") \cup At(log, "cache_write") \subseteq {1, 2}
           /\ (cmd.found = "populated" => Len(log) = 1)
    /\ \A k \in RoleIn(roles, cmd.role_id) :
        (cmd.name = "deactivate" /\ pc \in {"refresh", "done"} /\ roles[k].assignment_type = "None")
        => /\ At(log, "deactivate_role") = {}
           /\ pc = "done"
           /\ log[Len(log)] = Echo("not_activated")
           /\ At(log, "get_roles") \cup At(log, "cache_write") \subseteq {1, 2}
           /\ (cmd.found = "populated" => Len(log) = 1)

\* activate ended on a role the cache shows active although the directory no
\* longer shows it active.
C2_Witness ==
    /\ cmd.name = "activate" /\ pc = "done"
    /\ \E k \in RoleIn(roles, cmd.role_id) : roles[k].assignment_type # "None"
    /\ live[cmd.role_id] = "eligible"

----------------------------------------------------------------------------
\* The autoActivate = true entries of the config, by what the live role set
\* fetched at the start says of them.
TrueEntries == {i \in 1..Len(autoConfig.roles) : autoConfig.roles[i].autoActivate}
MissingEntries == {i \in TrueEntries : RoleIn(roles, autoConfig.roles[i].id) = {}}
ActiveEntries ==
    {i \in TrueEntries : \E k \in RoleIn(roles, autoConfig.roles[i].id) : roles[k].assignment_type # "None"}
InactiveEntries == TrueEntries \ (MissingEntries \cup ActiveEntries)
CallsFor(id) == {k \in At(log, "activate_role") : log[k].id = id}
EntriesFor(id) == {i \in InactiveEntries : autoConfig.roles[i].id = id}
FailedCalls == {k \in At(log, "activate_role") : log[k].out = "pim"}
OkCalls == {k \in At(log, "activate_role") : log[k].out = "ok"}
AutoEnded == cmd.name = "auto-activate" /\ pc = "done" /\ Len(log) > 0 /\ log[Len(log)] = Echo("summary")

\* C3: a run of auto-activate that reaches its end counts every entry with
\* autoActivate = true exactly once: failed if its id is not in the live role
\* set or its activation call fails with a role-specific error, skipped if
\* the role is already active, activated otherwise; activation is attempted
\* once for every entry that is found and inactive, whatever failed before it;
\* the three counts add up to the number of autoActivate = true entries.
C3_Counts ==
    AutoEnded =>
        /\ counts.failed = Cardinality(MissingEntries) + Cardinality(FailedCalls)
        /\ counts.skipped = Cardinality(ActiveEntries)
        /\ counts.activated = Cardinality(OkCalls)
        /\ Cardinality(OkCalls) + Cardinality(FailedCalls) = Cardinality(InactiveEntries)
        /\ \A id \in ConfigIds : Cardinality(CallsFor(id)) = Cardinality(EntriesFor(id))
        /\ counts.activated + counts.skipped + counts.failed = Cardinality(TrueEntries)

\* Three autoActivate = true entries, one id missing from the live role set,
\* one activation failing before the one that succeeds: activated=1,
\* skipped=0, failed=2.
C3_Witness ==
    /\ AutoEnded
    /\ Cardinality(TrueEntries) = 3
    /\ Cardinality(MissingEntries) = 1
    /\ \E k \in FailedCalls : \E m \in OkCalls : k < m
    /\ counts = [activated |-> 1, skipped |-> 0, failed |-> 2]

----------------------------------------------------------------------------
\* A legacy import that persisted a config.
LegacyImported ==
    /\ cmd.name = "import-config" /\ pc = "done"
    /\ cmd.file.kind = "object" /\ "autoActivationEnabled" \in cmd.file.keys
    /\ At(log, "config_write") # {}
RoleIdsOf(rs) == {rs[k].name : k \in 1..Len(rs)}
EntryIds(doc) == {doc.roles[k].id : k \in 1..Len(doc.roles)}

\* C4 as stated: the persisted entries are exactly the ids of the legacy map
\* that are present in the role set, each with the role's display name,
\* resource name and the legacy boolean.
C4_Original ==
    LegacyImported =>
        /\ autoConfig.kind = "object" /\ autoConfig.keys = {"roles"}
        /\ EntryIds(autoConfig) = DOMAIN cmd.file.legacy \cap RoleIdsOf(roles)
        /\ \A k \in 1..Len(autoConfig.roles) :
            /\ autoConfig.roles[k].id \in DOMAIN cmd.file.legacy
            /\ autoConfig.roles[k].autoActivate = cmd.file.legacy[autoConfig.roles[k].id]

\* C4 amended: importing a legacy config persists a document of the current
\* shape with exactly one entry per role of the resolved role set, in its
\* order, carrying the role's id, display name as name, resource name as
\* resource, and autoActivate equal to the boolean the legacy map gives for
\* that id, or false when the legacy map does not name the id; legacy ids
\* absent from the role set produce no entry.
C4_Amended ==
    LegacyImported =>
        /\ autoConfig.kind = "object" /\ autoConfig.keys = {"roles"}
        /\ Len(autoConfig.roles) = Len(roles)
        /\ \A k \in 1..Len(roles) :
            /\ autoConfig.roles[k].id = roles[k].name
            /\ autoConfig.roles[k].name = roles[k].display_name
            /\ autoConfig.roles[k].resource = roles[k].resource_name
            /\ autoConfig.roles[k].autoActivate =
                  (roles[k].name \in DOMAIN cmd.file.legacy /\ cmd.file.legacy[roles[k].name])
        /\ EntryIds(autoConfig) \cap (DOMAIN cmd.file.legacy \ RoleIdsOf(roles)) = {}
        /\ log[Len(log) - 2] = ConfigWrite(autoConfig.roles)

\* A legacy map naming one id of the role set as true and one id the role set
\* does not hold, imported against a role set of two roles.
C4_Witness ==
    /\ LegacyImported
    /\ Len(roles) = 2
    /\ \E a \in DOMAIN cmd.file.legacy \cap RoleIdsOf(roles) : cmd.file.legacy[a]
    /\ DOMAIN cmd.file.legacy \ RoleIdsOf(roles) # {}
    /\ RoleIdsOf(roles) \ DOMAIN cmd.file.legacy # {}

----------------------------------------------------------------------------
\* The command that starts in this step reads the cache without forcing an update.
IsLegacyFile(f) == f.kind = "object" /\ "autoActivationEnabled" \in f.keys
ReadsCache(c) ==
    \/ c.name \in {"activate", "deactivate"}
    \/ c.name = "list-roles" /\ ~c.update
    \/ c.name = "import-config" /\ IsLegacyFile(c.file)
Starts == pc = "idle" /\ pc' # "idle"

\* C5: a command that reads the cache without forcing an update and finds it
\* present, valid and populated uses exactly the cached role set, makes no
\* get_roles call on its way to its roles and leaves the cache file as it is
\* up to the mutation call.
C5_CacheHit ==
    [][/\ (Starts /\ ReadsCache(cmd') /\ CacheClass(cache) = "populated")
          => /\ roles' = deserialize_roles(cache.items).roles
             /\ Len(roles') = Len(cache.items)
             /\ At(log', "get_roles") \cup At(log', "cache_write") = {}
             /\ cache' = cache
       /\ (pc = "mutate" /\ cmd.found = "populated")
          => /\ cache' = cache
             /\ roles' = roles
             /\ At(log', "get_roles") \cup At(log', "cache_write") = {}]_vars

\* activate is about to act on cached roles that differ from the directory's.
C5_Witness ==
    /\ pc = "mutate" /\ cmd.name = "activate"
    /\ cmd.found = "populated"
    /\ log = <<>>
    /\ roles # get_roles(live)
    /\ cache = DocFile(serialize_roles(roles))

----------------------------------------------------------------------------
\* C6: a command that reads the cache without forcing an update and finds it
\* absent, invalid, missing keys or empty treats it as a cache miss: it
\* invokes refresh, reports no error because of the cache, and when get_roles
\* returns the cache file holds the fetched snapshot.
C6_CacheMiss ==
    [][(Starts /\ ReadsCache(cmd') /\ CacheClass(cache) # "populated")
          => /\ Len(log') >= 1
             /\ log'[1].ev = "get_roles"
             /\ log'[1].out = "ok" =>
                   /\ log'[2] = CacheWrite(log'[1].roles)
                   /\ roles' = log'[1].roles
                   /\ cache' = DocFile(serialize_roles(log'[1].roles))
                   /\ At(log', "echo") \cap {k \in 1..Len(log') : log'[k].out \in {"auth_error", "error_message"}} = {}]_vars

----------------------------------------------------------------------------
\* The command that starts in this step forces an update.
Forces(c) ==
    \/ c.name = "list-roles" /\ c.update
    \/ c.name = "auto-activate" /\ autoConfig.kind = "object" /\ autoConfig.roles # <<>>

\* C7: a forced update (list-roles --update, the start of auto-activate)
\* calls get_roles whatever the cache holds; the roles the command then uses
\* are what get_roles returned, and the cache file is replaced by exactly
\* that content.
C7_Forced ==
    [][(Starts /\ Forces(cmd'))
          => /\ Len(log') >= 1
             /\ log'[1].ev = "get_roles"
             /\ log'[1].out = "ok" =>
                   /\ log'[1].roles = get_roles(live)
                   /\ roles' = log'[1].roles
                   /\ log'[2] = CacheWrite(log'[1].roles)
                   /\ cache' = DocFile(serialize_roles(log'[1].roles))
                   /\ Len(cache'.items) = Len(roles')]_vars

\* list-roles --update found a populated cache and fetched a role set that
\* the cache now holds.
C7_Witness ==
    /\ cmd.name = "list-roles" /\ cmd.update /\ pc = "done"
    /\ cmd.found = "populated"
    /\ Len(log) = 3 /\ log[1].ev = "get_roles" /\ log[1].out = "ok"
    /\ roles # <<>>
    /\ cache = DocFile(serialize_roles(roles))

----------------------------------------------------------------------------
\* The document has the key: it is a JSON object with that key.
HasKey(f, key) == f.kind = "object" /\ key \in f.keys

\* C8: importing a JSON document that has neither an autoActivationEnabled
\* key nor a roles key reports 'invalid config format' and leaves the
\* auto-activate config file unwritten; importing a file that is not JSON
\* reports 'invalid JSON' and leaves it unwritten.
C8_Rejected ==
    [][(Starts /\ cmd'.name = "import-config")
          => /\ (cmd'.file.kind = "unparseable")
                => /\ log' = <<Echo("invalid_json")>>
                   /\ autoConfig' = autoConfig
             /\ (/\ cmd'.file.kind # "unparseable"
                 /\ ~HasKey(cmd'.file, "autoActivationEnabled")
                 /\ ~HasKey(cmd'.file, "roles"))
                => /\ log' = <<Echo("invalid_format")>>
                   /\ autoConfig' = autoConfig]_vars

----------------------------------------------------------------------------
AuthAt == {i \in 1..Len(log) : log[i].ev \in ExternalEvs /\ log[i].out = "auth"}
PerRoleFailures ==
    {k \in At(log, "echo") : log[k].out \in {"warn_not_found", "failed_to_activate"}}

\* C9: in auto-activate an authentication failure of any external call ends
\* the command: it is reported as an authentication error, it is not counted
\* as a per-role failure, and no external call follows it.
C9_AuthAborts ==
    cmd.name = "auto-activate" =>
        \A i \in AuthAt :
            /\ pc = "done"
            /\ Len(log) = i + 1
            /\ log[i + 1] = Echo("auth_error")
            /\ counts.failed = Cardinality(PerRoleFailures)
            /\ \A k \in PerRoleFailures : log[k - 1].out # "auth"

\* An activation inside the loop failed on authentication while a later
\* entry was still to be activated.
C9_Witness ==
    /\ cmd.name = "auto-activate" /\ pc = "done"
    /\ \E i \in AuthAt : log[i].ev = "activate_role"
    /\ \E j \in InactiveEntries : j > idx

----------------------------------------------------------------------------
\* The get_roles calls that failed among the events of this step.
FailedFetch == {i \in Added : log'[i].ev = "get_roles" /\ log'[i].out # "ok"}

\* C10: a refresh whose get_roles call fails leaves the cache file as it was
\* before the refresh; the command reports the error and ends, making no
\* further external call.
C10_FailedRefresh ==
    [][/\ \A i \in FailedFetch :
            /\ cache' = cache
            /\ live' = live
            /\ autoConfig' = autoConfig
            /\ pc' = "done"
            /\ Len(log') = i + 1
            /\ log'[i + 1] \in {Echo("auth_error"), Echo("error_message")}
            /\ (log'[i].out = "auth" /\ cmd'.name # "import-config") => log'[i + 1] = Echo("auth_error")
            /\ i = Len(log) + 1
       /\ pc = "done" => (pc' = "idle" /\ log' = <<>> /\ cache' = cache)]_vars

\* activate changed the directory, then the refresh after it failed: the
\* cache still holds the role as not activated.
C10_Witness ==
    /\ cmd.name = "activate" /\ pc = "done"
    /\ \E i \in At(log, "activate_role") : log[i].out = "ok"
    /\ log[Len(log) - 1].ev = "get_roles" /\ log[Len(log) - 1].out = "pim"
    /\ cache = DocFile(serialize_roles(roles))
    /\ CachedState(cache, cmd.role_id) = {"null"}

====
